---- MODULE Spec2Model ----
(***************************************************************************)
(* Model of the Tool-Box services:                                         *)
(*   - query_generator.py : /generate_query and /fetch_data, the           *)
(*     natural-language-to-SQL pipeline, and clean_sql_query;              *)
(*   - main.py            : /greet, /process, /search and /scrape_*.       *)
(* Text is modelled as sequences of one-character strings.                 *)
(***************************************************************************)
EXTENDS Integers, Sequences, FiniteSets, TLC

VARIABLES
    \* ---- clean_sql_query harness ----
    cpc,        \* "in" | "once" | "twice"
    cin,        \* the raw text handed to clean_sql_query
    cout,       \* clean_sql_query(cin)
    cout2,      \* clean_sql_query(clean_sql_query(cin))
    \* ---- main.py: one request at a time ----
    mpc,        \* "idle" | "received" | "search" | "fetch_html" | "done"
    mreq,       \* the request being handled
    mresp,      \* the response of the request
    mcalls,     \* upstream calls (web search, fetch_html) made for the request
    \* ---- query_generator.py: process configuration ----
    GEMINI_API_KEY,     \* the key read from the environment at start
    default_config,     \* the dict DEFAULT_POSTGRES_CONFIG as it is now
    \* ---- query_generator.py: the request being handled ----
    pc,             \* "idle" | "schema" | "generate" | "validate" | "execute" | "done"
    req,            \* the QueryInput and the endpoint it was posted to
    db_config,      \* the handler's db_config dict
    schema_context, \* the handler's schema_context
    sql_query,      \* the generated, cleaned query
    is_valid,       \* what validate_query returned: "unset" | "True" | "False"
    resp,           \* the response of the request
    calls,          \* dependency calls started for the request, per step
    connects,       \* database / warehouse connections attempted for the request
    outcomes,       \* what each dependency call of the request came to
    open_conns,     \* PostgreSQL connections opened for the request and not closed
    \* ---- get_postgres_schema: rendering the catalog rows ----
    spc,        \* "rows" | "text"
    srows,      \* the rows conn.fetch(schema_query) returned
    stext       \* the schema description, line by line

cvars == <<cpc, cin, cout, cout2>>

mvars == <<mpc, mreq, mresp, mcalls>>

svars == <<spc, srows, stext>>

qvars == <<GEMINI_API_KEY, default_config, pc, req, db_config, schema_context,
           sql_query, is_valid, resp, calls, connects, outcomes, open_conns>>

vars == <<cpc, cin, cout, cout2, mpc, mreq, mresp, mcalls,
          GEMINI_API_KEY, default_config, pc, req, db_config, schema_context,
          sql_query, is_valid, resp, calls, connects, outcomes, open_conns,
          spc, srows, stext>>

----------------------------------------------------------------------------
(* Bounds *)

MaxPieces == 4

MaxTextPieces == 3

MaxRows == 3

\* explicit hours range over -HourSlack .. 23 + HourSlack
HourSlack == 3

----------------------------------------------------------------------------
(* Text helpers *)

RECURSIVE Flatten(_)
Flatten(ss) == IF ss = <<>> THEN <<>> ELSE Head(ss) \o Flatten(Tail(ss))

SeqsUpTo(S, n) == UNION { [1..k -> S] : k \in 0..n }

\* Python's \s and str.strip() whitespace, restricted to the characters used
IsSpace(c) == c \in {" ", "\n"}

\* re.IGNORECASE / str.lower() on the characters used
Lower(c) ==
    CASE c = "S" -> "s"
      [] c = "Q" -> "q"
      [] c = "L" -> "l"
      [] c = "H" -> "h"
      [] c = "M" -> "m"
      [] OTHER -> c

LowerStr(s) == [i \in 1..Len(s) |-> Lower(s[i])]

\* first index >= i of s that holds no whitespace (Len(s)+1 when none)
RECURSIVE SkipSpace(_, _)
SkipSpace(s, i) ==
    IF i <= Len(s) /\ IsSpace(s[i]) THEN SkipSpace(s, i + 1) ELSE i

\* does the literal lit occur in s at index i
OccursAt(s, i, lit) ==
    /\ i + Len(lit) - 1 <= Len(s)
    /\ \A k \in 1..Len(lit) : s[i + k - 1] = lit[k]

Contains(s, lit) == \E i \in 1..(Len(s) + 1) : OccursAt(s, i, lit)

\* str.strip()
RECURSIVE LStrip(_)
LStrip(s) == IF s # <<>> /\ IsSpace(Head(s)) THEN LStrip(Tail(s)) ELSE s

RECURSIVE RStrip(_)
RStrip(s) ==
    IF s # <<>> /\ IsSpace(s[Len(s)]) THEN RStrip(SubSeq(s, 1, Len(s) - 1)) ELSE s

Strip(s) == RStrip(LStrip(s))

----------------------------------------------------------------------------
(* clean_sql_query *)

\* the backtick character (written "^": a backtick cannot appear in a module)
Backtick == "^"

Fence == <<Backtick, Backtick, Backtick>>

\* the regex alternative FENCE sql \s* at index i: the index after the match, 0 if none
MatchFenceSql(s, i) ==
    IF OccursAt(s, i, Fence) /\ OccursAt(LowerStr(s), i + 3, <<"s", "q", "l">>)
    THEN SkipSpace(s, i + 6)
    ELSE 0

\* the regex alternative \s* FENCE at index i: the index after the match, 0 if none
MatchSpaceFence(s, i) ==
    IF OccursAt(s, SkipSpace(s, i), Fence) THEN SkipSpace(s, i) + 3 ELSE 0

\* re.sub(FENCE sql \s* | \s* FENCE, '', query, flags=re.IGNORECASE), scanning from index i
RECURSIVE RemoveFencesFrom(_, _)
RemoveFencesFrom(s, i) ==
    IF i > Len(s) THEN <<>>
    ELSE IF MatchFenceSql(s, i) # 0 THEN RemoveFencesFrom(s, MatchFenceSql(s, i))
    ELSE IF MatchSpaceFence(s, i) # 0 THEN RemoveFencesFrom(s, MatchSpaceFence(s, i))
    ELSE <<s[i]>> \o RemoveFencesFrom(s, i + 1)

RemoveFences(s) == RemoveFencesFrom(s, 1)

\* indexes where ;\s*$ matches: a semicolon followed by whitespace only
TerminatorAt(s) ==
    { i \in 1..Len(s) : s[i] = ";" /\ SkipSpace(s, i + 1) = Len(s) + 1 }

RemoveAllTerminators(s) ==
    IF RStrip(s) # <<>> /\ RStrip(s)[Len(RStrip(s))] = ";"
    THEN LET r == RStrip(s)
             k == CHOOSE j \in 0..Len(r) :
                     /\ \A m \in (j + 1)..Len(r) : r[m] = ";"
                     /\ (j = 0 \/ r[j] # ";")
         IN SubSeq(r, 1, k)
    ELSE s

\* re.sub(r';\s*$', '', cleaned_query)
RemoveTerminator(s) ==
    IF TerminatorAt(s) = {} THEN s
    ELSE SubSeq(s, 1, (CHOOSE i \in TerminatorAt(s) : \A j \in TerminatorAt(s) : i <= j) - 1)

\* re.sub(r'\s+', ' ', cleaned_query)
RECURSIVE CollapseSpace(_)
CollapseSpace(s) ==
    IF s = <<>> THEN <<>>
    ELSE IF IsSpace(Head(s)) THEN <<" ">> \o CollapseSpace(LStrip(s))
    ELSE <<Head(s)>> \o CollapseSpace(Tail(s))

clean_sql_query_strip_early(query) ==
    CollapseSpace(RemoveTerminator(Strip(RemoveFences(query))))

clean_sql_query(query) ==
    Strip(CollapseSpace(RemoveTerminator(RemoveFences(query))))

----------------------------------------------------------------------------
(* query_generator.py: dicts, results and exceptions *)

\* the value dict.get returns for a missing key
None == "<None>"

\* Python truthiness of an optional string
Falsy(v) == v \in {None, ""}

Get(d, k) == IF k \in DOMAIN d THEN d[k] ELSE None

Put(d, k, v) == [x \in (DOMAIN d) \cup {k} |-> IF x = k THEN v ELSE d[x]]

\* os.getenv defaults
DEFAULT_POSTGRES_CONFIG ==
    [host |-> "localhost", database |-> "your_database", user |-> "your_user",
     password |-> "your_password", port |-> "5432"]

\* a call's result: a returned value or a raised exception; conns counts the
\* connections the call attempted, left the PostgreSQL connections it opened
\* and did not close
Return(value, conns, left) ==
    [kind |-> "return", class |-> "", status |-> 0, detail |-> <<>>,
     value |-> value, conns |-> conns, left |-> left]

Raise(class, status, detail, conns, left) ==
    [kind |-> "raise", class |-> class, status |-> status, detail |-> detail,
     value |-> <<>>, conns |-> conns, left |-> left]

\* raise HTTPException(status_code, detail) out of a call that had result r
RaiseHTTP(status, detail, r) == Raise("HTTPException", status, detail, r.conns, r.left)

\* str(e) of a raised exception
StrOf(r) == r.detail

----------------------------------------------------------------------------
(* query_generator.py: schema fetch *)

PostgresOutcomes ==
    {"ok", "connect_Exception", "connect_PostgresError",
     "query_PostgresError", "query_Exception"}

BigQueryOutcomes == {"ok", "GoogleCloudError", "Exception"}

\* asyncpg.connect followed by one conn.fetch and conn.close, as the three
\* PostgreSQL functions do it: conn.close() is skipped when fetch raises
postgres_session(outcome, value) ==
    CASE outcome = "ok" -> Return(value, 1, 0)
      [] outcome = "connect_Exception" -> Raise("Exception", 0, <<"connection refused">>, 1, 0)
      [] outcome = "connect_PostgresError" ->
              Raise("PostgresError", 0, <<"password authentication failed">>, 1, 0)
      [] outcome = "query_PostgresError" -> Raise("PostgresError", 0, <<"syntax error">>, 1, 1)
      [] outcome = "query_Exception" -> Raise("Exception", 0, <<"connection was closed">>, 1, 1)

get_postgres_schema(config, outcome) ==
    LET r == postgres_session(outcome, "schema") IN
    IF r.kind = "raise"
    THEN RaiseHTTP(500, <<"Failed to fetch PostgreSQL schema: ">> \o StrOf(r), r)
    ELSE r

\* building the BigQuery client and running one job with it
bigquery_session(outcome, value) ==
    CASE outcome = "ok" -> Return(value, 1, 0)
      [] outcome = "GoogleCloudError" -> Raise("GoogleCloudError", 0, <<"403 access denied">>, 1, 0)
      [] outcome = "Exception" -> Raise("Exception", 0, <<"credentials not found">>, 1, 0)

get_bigquery_schema(config, outcome) ==
    LET r == IF Falsy(Get(config, "project_id")) \/ Falsy(Get(config, "database"))
             THEN Raise("HTTPException", 400,
                        <<"project_id and database (dataset_id) are required for BigQuery">>, 0, 0)
             ELSE bigquery_session(outcome, "schema")
    IN  IF r.kind = "return" THEN r
        ELSE IF r.class = "GoogleCloudError"
        THEN RaiseHTTP(500, <<"Failed to fetch BigQuery schema: ">> \o StrOf(r), r)
        ELSE RaiseHTTP(500, <<"BigQuery error: ">> \o StrOf(r), r)

get_db_schema(config, outcome) ==
    LET db_type == IF "db_type" \in DOMAIN config THEN config["db_type"] ELSE "postgres" IN
    IF db_type = "postgres" THEN get_postgres_schema(config, outcome)
    ELSE IF db_type = "bigquery" THEN get_bigquery_schema(config, outcome)
    ELSE Raise("HTTPException", 400, <<"Unsupported db_type: ", db_type>>, 0, 0)

----------------------------------------------------------------------------
(* query_generator.py: generation *)

LLMOutcomes == {"ok", "HTTPStatusError", "Exception"}

\* texts the LLM endpoint may answer with
LLMTexts ==
    { <<>>, <<" ">>, <<"a">>, <<"a", ";">>, Fence,
      Fence \o <<"s", "q", "l", "\n", "a", ";", "\n">> \o Fence }

\* not GEMINI_API_KEY or GEMINI_API_KEY == "GEMINI_API_KEY", negated
KeyUsable(key) == key # "" /\ key # "GEMINI_API_KEY"

generate_sql_query_placeholder_accepted(key, outcome, text) ==
    IF key = ""
    THEN Raise("HTTPException", 500,
               <<"GEMINI_API_KEY environment variable is not set or invalid">>, 0, 0)
    ELSE IF outcome = "HTTPStatusError"
         THEN Raise("HTTPException", 500, <<"Gemini API request failed: ", "response text">>, 0, 0)
         ELSE IF outcome = "Exception"
         THEN Raise("HTTPException", 500, <<"Query generation failed: ", "connect timeout">>, 0, 0)
         ELSE IF Strip(text) = <<>>
         THEN Raise("HTTPException", 500, <<"Query generation failed: ", "Empty query generated">>, 0, 0)
         ELSE Return(clean_sql_query(Strip(text)), 0, 0)

generate_sql_query(key, outcome, text) ==
    IF ~KeyUsable(key)
    THEN Raise("HTTPException", 500,
               <<"GEMINI_API_KEY environment variable is not set or invalid">>, 0, 0)
    ELSE LET r == IF outcome = "HTTPStatusError"
                  THEN Raise("HTTPStatusError", 0, <<"response text">>, 0, 0)
                  ELSE IF outcome = "Exception"
                  THEN Raise("Exception", 0, <<"connect timeout">>, 0, 0)
                  ELSE IF Strip(text) = <<>>
                  THEN Raise("ValueError", 0, <<"Empty query generated">>, 0, 0)
                  ELSE Return(clean_sql_query(Strip(text)), 0, 0)
         IN  IF r.kind = "return" THEN r
             ELSE IF r.class = "HTTPStatusError"
             THEN RaiseHTTP(500, <<"Gemini API request failed: ">> \o StrOf(r), r)
             ELSE RaiseHTTP(500, <<"Query generation failed: ">> \o StrOf(r), r)

----------------------------------------------------------------------------
(* query_generator.py: validation *)

\* the (is_valid, error_message) tuple
Verdict(ok, message) == [is_valid |-> ok, error_message |-> message]

\* the engine cannot accept an empty statement
Accepts(query, outcome) == IF query = <<>> /\ outcome = "ok" THEN FALSE ELSE TRUE

validate_postgres_query(query, config, outcome) ==
    LET r == postgres_session(outcome, "plan") IN
    IF r.kind = "return" THEN Return(Verdict(TRUE, <<>>), r.conns, r.left)
    ELSE IF r.class = "PostgresError"
    THEN Return(Verdict(FALSE, StrOf(r)), r.conns, r.left)
    ELSE Return(Verdict(FALSE, <<"PostgreSQL connection error: ">> \o StrOf(r)), r.conns, r.left)

validate_bigquery_query(query, config, outcome) ==
    LET r == IF Falsy(Get(config, "project_id"))
             THEN Raise("HTTPException", 400, <<"project_id is required for BigQuery">>, 0, 0)
             ELSE bigquery_session(outcome, "dry run")
    IN  IF r.kind = "return" THEN Return(Verdict(TRUE, <<>>), r.conns, r.left)
        ELSE IF r.class = "GoogleCloudError"
        THEN Return(Verdict(FALSE, StrOf(r)), r.conns, r.left)
        ELSE Return(Verdict(FALSE, <<"BigQuery error: ">> \o StrOf(r)), r.conns, r.left)

validate_query(query, config, outcome) ==
    LET db_type == IF "db_type" \in DOMAIN config THEN config["db_type"] ELSE "postgres" IN
    IF db_type = "postgres" THEN validate_postgres_query(query, config, outcome)
    ELSE IF db_type = "bigquery" THEN validate_bigquery_query(query, config, outcome)
    ELSE Raise("HTTPException", 400, <<"Unsupported db_type: ", db_type>>, 0, 0)

----------------------------------------------------------------------------
(* query_generator.py: execution *)

fetch_postgres_data(query, config, outcome) ==
    LET r == postgres_session(outcome, "rows") IN
    IF r.kind = "return" THEN r
    ELSE IF r.class = "PostgresError"
    THEN RaiseHTTP(400, <<"PostgreSQL query execution failed: ">> \o StrOf(r), r)
    ELSE RaiseHTTP(500, <<"PostgreSQL connection error: ">> \o StrOf(r), r)

fetch_bigquery_data(query, config, outcome) ==
    LET r == IF Falsy(Get(config, "project_id"))
             THEN Raise("HTTPException", 400, <<"project_id is required for BigQuery">>, 0, 0)
             ELSE bigquery_session(outcome, "rows")
    IN  IF r.kind = "return" THEN r
        ELSE IF r.class = "GoogleCloudError"
        THEN RaiseHTTP(400, <<"BigQuery query execution failed: ">> \o StrOf(r), r)
        ELSE RaiseHTTP(500, <<"BigQuery error: ">> \o StrOf(r), r)

fetch_query_data(query, config, outcome) ==
    LET db_type == IF "db_type" \in DOMAIN config THEN config["db_type"] ELSE "postgres" IN
    IF db_type = "postgres" THEN fetch_postgres_data(query, config, outcome)
    ELSE IF db_type = "bigquery" THEN fetch_bigquery_data(query, config, outcome)
    ELSE Raise("HTTPException", 400, <<"Unsupported db_type: ", db_type>>, 0, 0)

----------------------------------------------------------------------------
(* query_generator.py: the handlers of /generate_query and /fetch_data *)

QNoResp == [status |-> 0, detail |-> <<>>, query |-> <<>>, data |-> "none"]

QNoReq == [endpoint |-> "", schema_context |-> None, has_config |-> FALSE, config |-> <<>>]

NoCalls == [schema |-> 0, llm |-> 0, validate |-> 0, execute |-> 0]

NoOutcomes ==
    [schema |-> "none", llm |-> "none", llm_text |-> <<>>, validate |-> "none",
     execute |-> "none"]

\* the outcomes the engine behind config can produce
OutcomesOf(config) ==
    CASE Get(config, "db_type") = "postgres" -> PostgresOutcomes
      [] Get(config, "db_type") = "bigquery" -> BigQueryOutcomes
      [] OTHER -> {"none"}

\* the outcome of a call, "none" when the call reached no engine
Seen(r, outcome) == IF r.conns > 0 THEN outcome ELSE "none"

DbTypes == {"postgres", "bigquery", "mysql", ""}

\* DBConfig.dict(exclude_unset=True): db_type is required, the rest optional
DBConfigs ==
    { [k \in {"db_type"} \cup opt |->
          CASE k = "db_type" -> t
            [] k = "project_id" -> "proj"
            [] k = "database" -> "dataset"] :
      t \in DbTypes, opt \in SUBSET {"project_id", "database"} }

QueryInputs ==
    { [schema_context |-> sc, has_config |-> TRUE, config |-> c] :
          sc \in {None, "", "Table: t"}, c \in DBConfigs }
    \cup { [schema_context |-> sc, has_config |-> FALSE, config |-> <<>>] :
          sc \in {None, "", "Table: t"} }

\* the part of the process state that outlives a request
QStart ==
    /\ GEMINI_API_KEY \in {"", "GEMINI_API_KEY", "secret"}
    /\ default_config = DEFAULT_POSTGRES_CONFIG

QRequestIdle ==
    /\ pc = "idle"
    /\ req = QNoReq
    /\ db_config = <<>>
    /\ schema_context = None
    /\ sql_query = <<>>
    /\ is_valid = "unset"
    /\ resp = QNoResp
    /\ calls = NoCalls
    /\ connects = 0
    /\ outcomes = NoOutcomes
    /\ open_conns = 0

QIdle ==
    /\ GEMINI_API_KEY = "secret"
    /\ default_config = DEFAULT_POSTGRES_CONFIG
    /\ QRequestIdle

\* no catalog rows are being rendered
SIdle ==
    /\ spc = "rows"
    /\ srows = <<>>
    /\ stext = <<>>

\* the handlers re-raise an HTTPException and answer 500 to anything else
handler_except(r) ==
    IF r.class = "HTTPException"
    THEN [QNoResp EXCEPT !.status = r.status, !.detail = r.detail]
    ELSE [QNoResp EXCEPT !.status = 500, !.detail = <<"Error processing request: ">> \o StrOf(r)]

\* both handlers up to the first dependency call: the db_config in use (the
\* request's, or the process-wide default dict itself) and the given schema
handler_start(endpoint) ==
    /\ pc = "idle"
    /\ \E body \in QueryInputs :
          LET chosen == IF body.has_config THEN body.config ELSE default_config
              config == IF Falsy(Get(chosen, "db_type"))
                        THEN Put(chosen, "db_type", "postgres")
                        ELSE chosen
          IN  /\ req' = [endpoint |-> endpoint, schema_context |-> body.schema_context,
                         has_config |-> body.has_config, config |-> body.config]
              /\ db_config' = config
              /\ default_config' = IF body.has_config THEN default_config ELSE config
              /\ schema_context' = body.schema_context
              /\ pc' = IF Falsy(body.schema_context) THEN "schema" ELSE "generate"
    /\ sql_query' = <<>>
    /\ is_valid' = "unset"
    /\ resp' = QNoResp
    /\ calls' = NoCalls
    /\ connects' = 0
    /\ outcomes' = NoOutcomes
    /\ open_conns' = 0
    /\ UNCHANGED GEMINI_API_KEY
    /\ UNCHANGED <<cvars, mvars, svars>>

generate_query == handler_start("generate_query")

fetch_data == handler_start("fetch_data")

Fail_swallowed(r) ==
    /\ resp' = handler_except(r)
    /\ pc' = CASE pc = "schema" -> "generate"
              [] pc = "generate" -> "validate"
              [] OTHER -> "done"

\* the request ends with an exception out of a dependency call
Fail(r) ==
    /\ resp' = handler_except(r)
    /\ pc' = "done"

\* schema_context = await get_db_schema(db_config)
schema_step ==
    /\ pc = "schema"
    /\ \E outcome \in OutcomesOf(db_config) :
          LET r == get_db_schema(db_config, outcome) IN
          /\ connects' = connects + r.conns
          /\ outcomes' = [outcomes EXCEPT !.schema = Seen(r, outcome)]
          /\ open_conns' = open_conns + r.left
          /\ IF r.kind = "raise"
             THEN Fail(r) /\ UNCHANGED schema_context
             ELSE /\ schema_context' = r.value
                  /\ pc' = "generate"
                  /\ resp' = resp
    /\ calls' = [calls EXCEPT !.schema = @ + 1]
    /\ UNCHANGED <<GEMINI_API_KEY, default_config, req, db_config, sql_query, is_valid>>
    /\ UNCHANGED <<cvars, mvars, svars>>

\* sql_query = await generate_sql_query(...)
generate_step ==
    /\ pc = "generate"
    /\ \E outcome \in LLMOutcomes, text \in LLMTexts :
          LET r == generate_sql_query(GEMINI_API_KEY, outcome, text)
          IN
          /\ outcome = "ok" \/ text = <<>>    \* a failed call carries no text
          /\ outcomes' = IF KeyUsable(GEMINI_API_KEY)
                         THEN [outcomes EXCEPT !.llm = outcome, !.llm_text = text]
                         ELSE outcomes
          /\ IF r.kind = "raise"
             THEN Fail(r) /\ UNCHANGED sql_query
             ELSE /\ sql_query' = r.value
                  /\ pc' = "validate"
                  /\ resp' = resp
    /\ calls' = [calls EXCEPT !.llm = @ + (IF KeyUsable(GEMINI_API_KEY) THEN 1 ELSE 0)]
    /\ UNCHANGED <<GEMINI_API_KEY, default_config, req, db_config, schema_context,
                   is_valid, connects, open_conns>>
    /\ UNCHANGED <<cvars, mvars, svars>>

after_validate_unchecked(endpoint, verdict) ==
    IF endpoint = "fetch_data" THEN "execute" ELSE "return"

\* what the handler does with the verdict: reject, return the query, or go on
after_validate(endpoint, verdict) ==
    IF ~verdict.is_valid THEN "reject"
    ELSE IF endpoint = "fetch_data" THEN "execute"
    ELSE "return"

\* is_valid, error_message = await validate_query(sql_query, db_config), and
\* the handler's check of is_valid
validate_step ==
    /\ pc = "validate"
    /\ \E outcome \in OutcomesOf(db_config) :
          /\ Accepts(sql_query, outcome)
          /\ LET r == validate_query(sql_query, db_config, outcome) IN
             /\ connects' = connects + r.conns
             /\ outcomes' = [outcomes EXCEPT !.validate = Seen(r, outcome)]
             /\ open_conns' = open_conns + r.left
             /\ IF r.kind = "raise"
                THEN Fail(r) /\ UNCHANGED is_valid
                ELSE /\ is_valid' = (IF r.value.is_valid THEN "True" ELSE "False")
                     /\ LET todo == after_validate(req.endpoint, r.value) IN
                        CASE todo = "reject" ->
                                /\ resp' = [QNoResp EXCEPT !.status = 400,
                                              !.detail = <<"Error: ">> \o r.value.error_message
                                                         \o <<" | Generated query: ">>]
                                /\ pc' = "done"
                          [] todo = "return" ->
                                /\ resp' = [QNoResp EXCEPT !.status = 200, !.query = sql_query]
                                /\ pc' = "done"
                          [] todo = "execute" ->
                                /\ resp' = resp
                                /\ pc' = "execute"
    /\ calls' = [calls EXCEPT !.validate = @ + 1]
    /\ UNCHANGED <<GEMINI_API_KEY, default_config, req, db_config, schema_context, sql_query>>
    /\ UNCHANGED <<cvars, mvars, svars>>

\* data = await fetch_query_data(sql_query, db_config), and the return
execute_step ==
    /\ pc = "execute"
    /\ \E outcome \in OutcomesOf(db_config) :
          /\ Accepts(sql_query, outcome)
          /\ LET r == fetch_query_data(sql_query, db_config, outcome) IN
             /\ connects' = connects + r.conns
             /\ outcomes' = [outcomes EXCEPT !.execute = Seen(r, outcome)]
             /\ open_conns' = open_conns + r.left
             /\ IF r.kind = "raise"
                THEN Fail(r)
                ELSE /\ resp' = [QNoResp EXCEPT !.status = 200, !.query = sql_query,
                                                !.data = r.value]
                     /\ pc' = "done"
    /\ calls' = [calls EXCEPT !.execute = @ + 1]
    /\ UNCHANGED <<GEMINI_API_KEY, default_config, req, db_config, schema_context,
                   sql_query, is_valid>>
    /\ UNCHANGED <<cvars, mvars, svars>>

\* the response is sent; the handler's locals are gone, the process state stays
respond ==
    /\ pc = "done"
    /\ pc' = "idle"
    /\ req' = QNoReq
    /\ db_config' = <<>>
    /\ schema_context' = None
    /\ sql_query' = <<>>
    /\ is_valid' = "unset"
    /\ resp' = QNoResp
    /\ calls' = NoCalls
    /\ connects' = 0
    /\ outcomes' = NoOutcomes
    /\ open_conns' = 0
    /\ UNCHANGED <<GEMINI_API_KEY, default_config>>
    /\ UNCHANGED <<cvars, mvars, svars>>

----------------------------------------------------------------------------
(* main.py *)

kw_morning == <<"m", "o", "r", "n", "i", "n", "g">>
kw_afternoon == <<"a", "f", "t", "e", "r", "n", "o", "o", "n">>
kw_evening == <<"e", "v", "e", "n", "i", "n", "g">>
kw_night == <<"n", "i", "g", "h", "t">>
kw_hello == <<"h", "e", "l", "l", "o">>
kw_hi == <<"h", "i">>
kw_hey == <<"h", "e", "y">>

\* keyword -> emoji in declaration order; the emoji glyphs are written by name
EMOJI_MAP ==
    << <<kw_morning, "sun">>, <<kw_afternoon, "sun_behind_cloud">>,
       <<kw_evening, "crescent_moon">>, <<kw_night, "moon_face">>,
       <<kw_hello, "waving_hand">>, <<kw_hi, "smiling_face">>,
       <<kw_hey, "raised_hands">> >>

DEFAULT_EMOJI == "sparkles"

NoResp == [status |-> 0, detail |-> "", greeting |-> "", result |-> <<>>, results |-> ""]

HTTPException(status_code, detail) ==
    [NoResp EXCEPT !.status = status_code, !.detail = detail]

\* an exception no handler catches: the framework answers 500
Unhandled == HTTPException(500, "Internal Server Error")

NoReq == [endpoint |-> "", text |-> <<>>, hour_given |-> FALSE, hour |-> 0,
          num_null |-> FALSE, num_results |-> 5]

MIdle ==
    /\ mpc = "idle"
    /\ mreq = NoReq
    /\ mresp = NoResp
    /\ mcalls = 0

TextPieces ==
    { kw_morning, kw_night, kw_hello, kw_hey, <<"H">>, <<"i">>, <<" ">>, <<"x">> }

Texts == { Flatten(ps) : ps \in SeqsUpTo(TextPieces, MaxTextPieces) }

Hours == (0 - HourSlack)..(23 + HourSlack)

NumResults == {0, 1, 5, 20, 21}

TextEndpoints == {"process", "search", "scrape_amazon", "scrape_walmart", "scrape_target"}

\* hour and num_results are optional: hour may be absent, num_results may be null
Requests ==
    { [NoReq EXCEPT !.endpoint = "greet", !.hour_given = TRUE, !.hour = h] : h \in Hours }
    \cup { [NoReq EXCEPT !.endpoint = "greet"] }
    \cup { [NoReq EXCEPT !.endpoint = e, !.text = t] :
          e \in TextEndpoints \ {"search"}, t \in Texts }
    \cup { [NoReq EXCEPT !.endpoint = "search", !.text = t, !.num_results = n] :
          t \in Texts, n \in NumResults }
    \cup { [NoReq EXCEPT !.endpoint = "search", !.text = t, !.num_null = TRUE, !.num_results = 0] :
          t \in Texts }

\* a request arrives and is routed to its handler; main.py keeps no state
\* from one request to the next, so a behaviour follows a single request
MReceive ==
    /\ mpc = "idle"
    /\ mreq' \in Requests
    /\ mpc' = "received"
    /\ mresp' = NoResp
    /\ mcalls' = 0
    /\ UNCHANGED <<cvars, qvars, svars>>

greeting_of_shifted(hour) ==
    IF 5 <= hour /\ hour <= 12 THEN "Good morning!"
    ELSE IF 12 <= hour /\ hour < 18 THEN "Good afternoon!"
    ELSE IF 18 <= hour /\ hour < 22 THEN "Good evening!"
    ELSE "Good night!"

greeting_of(hour) ==
    IF 5 <= hour /\ hour < 12 THEN "Good morning!"
    ELSE IF 12 <= hour /\ hour < 18 THEN "Good afternoon!"
    ELSE IF 18 <= hour /\ hour < 22 THEN "Good evening!"
    ELSE "Good night!"

get_greeting ==
    /\ mpc = "received"
    /\ mreq.endpoint = "greet"
    /\ \E now_hour \in 0..23 :
          LET hour == IF mreq.hour_given THEN mreq.hour ELSE now_hour IN
          mresp' = IF ~(0 <= hour /\ hour <= 23)
                   THEN HTTPException(400, "Hour must be between 0 and 23.")
                   ELSE [NoResp EXCEPT !.status = 200, !.greeting = greeting_of(hour)]
    /\ mpc' = "done"
    /\ UNCHANGED <<mreq, mcalls>>
    /\ UNCHANGED <<cvars, qvars, svars>>

\* next((emoji for keyword, emoji in EMOJI_MAP.items() if keyword in lowered), default),
\* scanning the map from entry i
RECURSIVE first_emoji_from(_, _)
first_emoji_from(lowered, i) ==
    IF i > Len(EMOJI_MAP) THEN DEFAULT_EMOJI
    ELSE IF Contains(lowered, EMOJI_MAP[i][1]) THEN EMOJI_MAP[i][2]
    ELSE first_emoji_from(lowered, i + 1)

RECURSIVE last_emoji_from(_, _)
last_emoji_from(lowered, i) ==
    IF i < 1 THEN DEFAULT_EMOJI
    ELSE IF Contains(lowered, EMOJI_MAP[i][1]) THEN EMOJI_MAP[i][2]
    ELSE last_emoji_from(lowered, i - 1)

pick_emoji_last(text) == last_emoji_from(LowerStr(text), Len(EMOJI_MAP))

pick_emoji(text) == first_emoji_from(LowerStr(text), 1)

process_text_unstripped ==
    /\ mpc = "received"
    /\ mreq.endpoint = "process"
    /\ LET text == mreq.text IN
          mresp' = IF text = <<>>
                   THEN HTTPException(400, "Text cannot be empty.")
                   ELSE [NoResp EXCEPT !.status = 200,
                            !.result = text \o <<" ", pick_emoji(text)>>]
    /\ mpc' = "done"
    /\ UNCHANGED <<mreq, mcalls>>
    /\ UNCHANGED <<cvars, qvars, svars>>

process_text ==
    /\ mpc = "received"
    /\ mreq.endpoint = "process"
    /\ LET text == Strip(mreq.text) IN
          mresp' = IF text = <<>>
                   THEN HTTPException(400, "Text cannot be empty.")
                   ELSE [NoResp EXCEPT !.status = 200,
                            !.result = text \o <<" ", pick_emoji(text)>>]
    /\ mpc' = "done"
    /\ UNCHANGED <<mreq, mcalls>>
    /\ UNCHANGED <<cvars, qvars, svars>>

\* web_search up to the call of search(): the two checks, then the call
web_search ==
    /\ mpc = "received"
    /\ mreq.endpoint = "search"
    /\ LET query == Strip(mreq.text) IN
          IF query = <<>>
          THEN /\ mresp' = HTTPException(400, "Search query cannot be empty.")
               /\ mpc' = "done"
               /\ mcalls' = mcalls
          ELSE IF mreq.num_null
          THEN \* 1 <= None raises TypeError outside the try block
               /\ mresp' = Unhandled
               /\ mpc' = "done"
               /\ mcalls' = mcalls
          ELSE IF ~(1 <= mreq.num_results /\ mreq.num_results <= 20)
          THEN /\ mresp' = HTTPException(400, "Number of results must be between 1 and 20.")
               /\ mpc' = "done"
               /\ mcalls' = mcalls
          ELSE /\ mresp' = mresp
               /\ mpc' = "search"
               /\ mcalls' = mcalls + 1
    /\ UNCHANGED mreq
    /\ UNCHANGED <<cvars, qvars, svars>>

\* the outcome of search() and the rest of web_search
web_search_result ==
    /\ mpc = "search"
    /\ \E outcome \in {"urls", "nothing", "exception"} :
          mresp' = CASE outcome = "urls" -> [NoResp EXCEPT !.status = 200, !.results = "urls"]
                     [] outcome = "nothing" ->
                          [NoResp EXCEPT !.status = 200, !.results = "empty",
                                         !.detail = "No results found."]
                     [] outcome = "exception" -> HTTPException(500, "Search failed")
    /\ mpc' = "done"
    /\ UNCHANGED <<mreq, mcalls>>
    /\ UNCHANGED <<cvars, qvars, svars>>

\* a scraper up to its call of fetch_html
scrape_start(endpoint) ==
    /\ mpc = "received"
    /\ mreq.endpoint = endpoint
    /\ LET item_name == Strip(mreq.text) IN
          IF item_name = <<>>
          THEN /\ mresp' = HTTPException(400, "Item name cannot be empty.")
               /\ mpc' = "done"
               /\ mcalls' = mcalls
          ELSE /\ mresp' = mresp
               /\ mpc' = "fetch_html"
               /\ mcalls' = mcalls + 1
    /\ UNCHANGED mreq
    /\ UNCHANGED <<cvars, qvars, svars>>

scrape_amazon == scrape_start("scrape_amazon")

scrape_walmart == scrape_start("scrape_walmart")

scrape_target == scrape_start("scrape_target")

\* fetch_html returns or raises, and the scraper parses what it got
fetch_html ==
    /\ mpc = "fetch_html"
    /\ \E outcome \in {"products", "no_products", "RequestError", "HTTPStatusError"} :
          mresp' = CASE outcome = "products" -> [NoResp EXCEPT !.status = 200, !.results = "products"]
                     [] outcome = "no_products" ->
                          [NoResp EXCEPT !.status = 200, !.results = "empty",
                                         !.detail = "No products found."]
                     [] outcome = "RequestError" -> HTTPException(500, "Failed to fetch HTML")
                     [] outcome = "HTTPStatusError" -> Unhandled
    /\ mpc' = "done"
    /\ UNCHANGED <<mreq, mcalls>>
    /\ UNCHANGED <<cvars, qvars, svars>>

CIdle ==
    /\ cpc = "in"
    /\ cin = <<>>
    /\ cout = <<>>
    /\ cout2 = <<>>

MInit == MIdle /\ CIdle /\ QIdle /\ SIdle

MNext ==
    \/ MReceive
    \/ get_greeting
    \/ process_text
    \/ web_search
    \/ web_search_result
    \/ scrape_amazon
    \/ scrape_walmart
    \/ scrape_target
    \/ fetch_html

SpecMain == MInit /\ [][MNext]_vars

----------------------------------------------------------------------------
(* Harness applying clean_sql_query to bounded raw texts *)

Pieces ==
    { Fence, <<Backtick>>, <<"s", "q", "l">>, <<"S", "Q", "L">>,
      <<";">>, <<" ">>, <<"\n">>, <<"a">> }

RawTexts == { Flatten(ps) : ps \in SeqsUpTo(Pieces, MaxPieces) }

CStart ==
    /\ cpc = "in"
    /\ cin \in RawTexts
    /\ cout = <<>>
    /\ cout2 = <<>>

CInit == CStart /\ MIdle /\ QIdle /\ SIdle

CleanOnce ==
    /\ cpc = "in"
    /\ cout' = clean_sql_query(cin)
    /\ cpc' = "once"
    /\ UNCHANGED <<cin, cout2>>
    /\ UNCHANGED <<mvars, qvars, svars>>

CleanTwice ==
    /\ cpc = "once"
    /\ cout2' = clean_sql_query(cout)
    /\ cpc' = "twice"
    /\ UNCHANGED <<cin, cout>>
    /\ UNCHANGED <<mvars, qvars, svars>>

CNext == CleanOnce \/ CleanTwice

SpecClean == CInit /\ [][CNext]_vars

----------------------------------------------------------------------------
(* query_generator.py: get_postgres_schema renders the catalog rows *)

TableNames == {"orders", "users"}

ColumnNames == {"id", "name"}

DataTypes == {"integer", "text"}

\* a row of SELECT table_name, column_name, data_type; the query has no
\* ORDER BY, so the rows come in any order
CatalogRows == [table_name : TableNames, column_name : ColumnNames, data_type : DataTypes]

TableLine(table) == [kind |-> "Table", table |-> table, column |-> "", type |-> ""]

ColumnLine(row) ==
    [kind |-> "Column", table |-> "", column |-> row.column_name, type |-> row.data_type]

\* the loop over rows from row i on, current_table being the last table seen
RECURSIVE schema_lines(_, _, _)
schema_lines(rows, i, current_table) ==
    IF i > Len(rows) THEN <<>>
    ELSE LET table == rows[i].table_name IN
         (IF table # current_table THEN <<TableLine(table)>> ELSE <<>>)
         \o <<ColumnLine(rows[i])>>
         \o schema_lines(rows, i + 1, table)

schema_text(rows) == schema_lines(rows, 1, None)

SInit ==
    /\ spc = "rows"
    /\ srows \in SeqsUpTo(CatalogRows, MaxRows)
    /\ stext = <<>>
    /\ MIdle /\ CIdle /\ QIdle

RenderSchema ==
    /\ spc = "rows"
    /\ stext' = schema_text(srows)
    /\ spc' = "text"
    /\ UNCHANGED srows
    /\ UNCHANGED <<cvars, mvars, qvars>>

SNext == RenderSchema

SpecSchema == SInit /\ [][SNext]_vars

----------------------------------------------------------------------------
(* The /generate_query and /fetch_data service *)

Init == QStart /\ QRequestIdle /\ MIdle /\ CIdle /\ SIdle

Next ==
    \/ generate_query
    \/ fetch_data
    \/ schema_step
    \/ generate_step
    \/ validate_step
    \/ execute_step
    \/ respond

Spec == Init /\ [][Next]_vars

----------------------------------------------------------------------------
(* Properties of /generate_query and /fetch_data (checked under Spec) *)

Supported == {"postgres", "bigquery"}

\* C1: in /fetch_data the execution step is never started unless
\* validate_query returned is_valid = True for the request's query; when it
\* returned False the request ends with an error and without result rows.
C1_ExecuteOnlyIfValid ==
    req.endpoint = "fetch_data" =>
        /\ (pc = "execute" \/ calls.execute > 0) => is_valid = "True"
        /\ is_valid = "False" =>
              /\ pc = "done"
              /\ resp.status = 400
              /\ resp.data = "none"
              /\ calls.execute = 0

\* C1 witness: a /fetch_data request whose query failed validation has ended
C1_Witness ==
    /\ req.endpoint = "fetch_data"
    /\ pc = "done"
    /\ is_valid = "False"
    /\ outcomes.validate = "GoogleCloudError"
    /\ resp.status = 400

\* C2: a request whose db_type is neither "postgres" nor "bigquery" (and not
\* empty) always ends with status 400, whether schema_context is supplied or
\* not and whatever the LLM key or endpoint do, and no database or warehouse
\* connection is attempted for it.
C2_UnsupportedIs400 ==
    (pc # "idle" /\ Get(db_config, "db_type") \notin Supported) =>
        /\ connects = 0
        /\ pc = "done" => resp.status = 400

\* C3: /generate_query answers 400 when the generated text is empty after
\* trimming or the query fails validation, and 500 when the LLM endpoint fails.
C3_EmptyOrInvalidIs400 ==
    (req.endpoint = "generate_query" /\ pc = "done") =>
        /\ (outcomes.llm = "ok" /\ Strip(outcomes.llm_text) = <<>>) => resp.status = 400
        /\ is_valid = "False" => resp.status = 400
        /\ outcomes.llm \in {"HTTPStatusError", "Exception"} => resp.status = 500

\* outcomes that are failures of the connection or of the infrastructure
InfraFailures == {"connect_Exception", "connect_PostgresError", "Exception"}

\* the step the request ended in
LastOutcome ==
    IF calls.execute > 0 THEN outcomes.execute
    ELSE IF calls.validate > 0 THEN outcomes.validate
    ELSE IF calls.llm > 0 THEN "none"
    ELSE outcomes.schema

\* C4: a connection or infrastructure failure of the database or warehouse
\* at schema fetch, validation or execution ends the request with status 500
\* and is never reported as an invalid generated query (400, "Error: ...").
C4_InfraFailureIs500 ==
    (pc = "done" /\ LastOutcome \in InfraFailures) =>
        /\ resp.status = 500
        /\ resp.detail[1] # "Error: "

\* C5 as stated: with the LLM key missing or the placeholder, every request
\* ends with status 500.
C5_BadKeyIs500 ==
    (pc = "done" /\ GEMINI_API_KEY \in {"", "GEMINI_API_KEY"}) => resp.status = 500

\* C5 amended: with the LLM key missing or the placeholder, every request
\* ends with status 500 and no LLM call, except a request without
\* schema_context and with an unsupported db_type, which the schema fetch
\* rejects with status 400 before the key is looked at.
C5_BadKeyIs500UnlessRejectedEarlier ==
    (pc = "done" /\ GEMINI_API_KEY \in {"", "GEMINI_API_KEY"}) =>
        /\ calls.llm = 0
        /\ resp.status = IF Falsy(req.schema_context)
                            /\ Get(db_config, "db_type") \notin Supported
                         THEN 400 ELSE 500

\* C5 witness: the schema was fetched, then the placeholder key ended the request
C5_Witness ==
    /\ pc = "done"
    /\ GEMINI_API_KEY = "GEMINI_API_KEY"
    /\ outcomes.schema = "ok"
    /\ resp.status = 500
    /\ resp.detail = <<"GEMINI_API_KEY environment variable is not set or invalid">>

StepRank(p) ==
    CASE p = "idle" -> 0
      [] p = "schema" -> 1
      [] p = "generate" -> 2
      [] p = "validate" -> 3
      [] p = "execute" -> 4
      [] p = "done" -> 5

\* schema resolution is over: the schema was fetched or came with the request
SchemaResolved == calls.schema = 1 \/ ~Falsy(req.schema_context)

C11_OrderedOnce ==
    req.endpoint = "fetch_data" =>
        /\ \A step \in DOMAIN calls : calls[step] <= 1
        /\ calls.schema = 1 => Falsy(req.schema_context)
        /\ calls.llm = 1 => SchemaResolved
        /\ calls.validate = 1 =>
              /\ calls.llm = 1
              /\ outcomes.llm = "ok"
              /\ sql_query = clean_sql_query(Strip(outcomes.llm_text))
        /\ calls.execute = 1 => (calls.validate = 1 /\ is_valid = "True")
        /\ resp.status # 0 => pc = "done"
        /\ (pc = "done" /\ resp.status = 200) => (calls.execute = 1 /\ resp.data = "rows")

C11_ForwardOnly ==
    (req.endpoint = "fetch_data" /\ pc # "done") =>
        /\ StepRank(pc') >= StepRank(pc)
        /\ \A step \in DOMAIN calls : calls'[step] >= calls[step]

C11_FailedIsTerminal ==
    (req.endpoint = "fetch_data" /\ pc = "done") =>
        (pc' = "idle" \/ (pc' = "done" /\ calls' = calls /\ resp' = resp))

\* C11: within one /fetch_data request the steps run in the order schema
\* resolution, LLM generation, normalization, validation, execution; each
\* dependency call is attempted at most once; a failure at any step ends the
\* request and no later step runs; the request only succeeds after execution.
C11_PipelineOrder ==
    /\ []C11_OrderedOnce
    /\ [][C11_ForwardOnly /\ C11_FailedIsTerminal]_vars

\* C11 witness: a /fetch_data request failed at validation after the schema
\* fetch and the LLM call, each made once, and execution never ran
C11_Witness ==
    /\ req.endpoint = "fetch_data"
    /\ pc = "done"
    /\ calls = [schema |-> 1, llm |-> 1, validate |-> 1, execute |-> 0]
    /\ resp.status = 400

\* C12: every PostgreSQL connection opened by get_postgres_schema,
\* validate_postgres_query or fetch_postgres_data is closed before the call
\* returns or raises, also when the statement fails after the connection
\* was opened: no connection of the request is ever left open.
C12_ConnectionsClosed == open_conns = 0

\* C13: handling requests leaves DEFAULT_POSTGRES_CONFIG exactly as loaded
\* at process start, with the same keys and values.
C13_DefaultConfigUntouched == default_config = DEFAULT_POSTGRES_CONFIG

RequiredForBigQuery ==
    { <<"project_id and database (dataset_id) are required for BigQuery">>,
      <<"project_id is required for BigQuery">> }

\* a step of the request found project_id (or, at schema fetch, database) missing
BigQueryFieldMissed ==
    /\ Get(db_config, "db_type") = "bigquery"
    /\ \/ /\ calls.schema = 1
          /\ Falsy(Get(db_config, "project_id")) \/ Falsy(Get(db_config, "database"))
       \/ /\ calls.validate = 1
          /\ Falsy(Get(db_config, "project_id"))

\* C15: a BigQuery request without project_id (or, at schema fetch, without
\* database) ends with status 400 and the "is required for BigQuery" detail
\* at the step that detects it; the 400 is not turned into a 500 or into an
\* invalid-query answer.
C15_MissingFieldIs400 ==
    (pc = "done" /\ BigQueryFieldMissed) =>
        /\ resp.status = 400
        /\ resp.detail \in RequiredForBigQuery

----------------------------------------------------------------------------
(* Properties of the schema description (checked under SpecSchema) *)

\* the tables of a sequence of rows in first-seen order
RECURSIVE FirstSeen(_, _)
FirstSeen(rows, seen) ==
    IF rows = <<>> THEN <<>>
    ELSE IF Head(rows).table_name \in seen THEN FirstSeen(Tail(rows), seen)
    ELSE <<Head(rows).table_name>>
         \o FirstSeen(Tail(rows), seen \cup {Head(rows).table_name})

HeaderTables(lines) ==
    LET headers == SelectSeq(lines, LAMBDA l : l.kind = "Table")
    IN  [i \in 1..Len(headers) |-> headers[i].table]

\* the table of the header that line i stands under (None when there is none)
RECURSIVE HeaderAbove(_, _)
HeaderAbove(lines, i) ==
    IF i < 1 THEN None
    ELSE IF lines[i].kind = "Table" THEN lines[i].table
    ELSE HeaderAbove(lines, i - 1)

\* the index in lines of the k-th column line
ColumnLineIndex(lines, k) ==
    CHOOSE i \in 1..Len(lines) :
        /\ lines[i].kind = "Column"
        /\ Cardinality({ j \in 1..i : lines[j].kind = "Column" }) = k

\* C14: for catalog rows in any order the description is grouped by table:
\* one "Table:" header per distinct table, headers in first-seen order, and
\* every column line under the header of its own table.
C14_GroupedByTable ==
    spc = "text" =>
        /\ HeaderTables(stext) = FirstSeen(srows, {})
        /\ \A k \in 1..Len(srows) :
              HeaderAbove(stext, ColumnLineIndex(stext, k)) = srows[k].table_name

----------------------------------------------------------------------------
(* Properties of clean_sql_query (checked under SpecClean) *)

\* number of semicolons that end s, trailing whitespace set aside
RECURSIVE TrailingRun(_)
TrailingRun(s) ==
    IF s # <<>> /\ s[Len(s)] = ";" THEN 1 + TrailingRun(SubSeq(s, 1, Len(s) - 1)) ELSE 0

TrailingSemis(s) == TrailingRun(RStrip(s))

NonSpace(s) == SelectSeq(s, LAMBDA c : ~IsSpace(c))

CountSemi(s) == Len(SelectSeq(s, LAMBDA c : c = ";"))

Front(s) == SubSeq(s, 1, Len(s) - 1)

\* C7 as stated: clean_sql_query is idempotent, for every input a second
\* application returns the result of the first.
C7_Idempotent == cpc = "twice" => cout2 = cout

\* C7 amended: a second application returns the first result exactly when
\* that result neither ends in a semicolon nor holds a code-fence marker.
C7_IdempotentOnSettled ==
    cpc = "twice" =>
        ((cout2 = cout) <=> (TrailingSemis(cout) = 0 /\ ~Contains(cout, Fence)))

\* C7 witness: a fenced input with one terminator, cleaned twice, both equal
C7_Witness ==
    /\ cpc = "twice"
    /\ Contains(cin, Fence)
    /\ TrailingSemis(cin) = 1
    /\ cout # <<>>
    /\ cout2 = cout

\* C8 as stated: an input ending in k >= 1 semicolons (optionally followed
\* by whitespace) is cleaned to a text ending in exactly k-1 semicolons.
C8_TrailingMinusOne ==
    (cpc # "in" /\ TrailingSemis(cin) >= 1) =>
        TrailingSemis(cout) = TrailingSemis(cin) - 1

\* C8 amended: with k the number of semicolons ending the fence-stripped
\* input, k >= 1 removes exactly the last semicolon and nothing else that is
\* not whitespace, k >= 2 leaves exactly k-1 semicolons at the end, and k = 0
\* removes no semicolon.
C8_OneTerminatorRemoved ==
    cpc # "in" =>
        LET f == RemoveFences(cin)
            k == TrailingSemis(f)
        IN  /\ NonSpace(cout) = IF k >= 1 THEN Front(NonSpace(f)) ELSE NonSpace(f)
            /\ CountSemi(cout) = CountSemi(cin) - (IF k >= 1 THEN 1 ELSE 0)
            /\ k >= 2 => TrailingSemis(cout) = k - 1

\* C8 witness: "a;;" cleaned to "a;"
C8_Witness ==
    /\ cpc = "once"
    /\ cin = <<"a", ";", ";">>
    /\ cout = <<"a", ";">>

----------------------------------------------------------------------------
(* Properties of main.py (checked under SpecMain) *)

BlankRequest == mreq.endpoint \in TextEndpoints /\ Strip(mreq.text) = <<>>

\* C6: a /process, /search or /scrape_* request whose text, query or
\* item_name is empty or only whitespace ends with status 400 and no upstream
\* call (web search, fetch_html) is made for it.
C6_BlankRejected ==
    BlankRequest =>
        /\ mcalls = 0
        /\ mpc \in {"received", "done"}
        /\ mpc = "done" => mresp.status = 400

\* C6 witness: a whitespace-only item_name rejected by /scrape_walmart
C6_Witness ==
    /\ mpc = "done"
    /\ mreq.endpoint = "scrape_walmart"
    /\ mreq.text = <<" ", " ">>
    /\ mresp.status = 400
    /\ mcalls = 0

GreetOutcome == IF mresp.status = 400 THEN "error" ELSE mresp.greeting

\* C9: /greet with an explicit hour h answers morning for 5..11, afternoon
\* for 12..17, evening for 18..21, night for 22, 23, 0..4, and status 400 for
\* every h outside 0..23; every h gets exactly one of these outcomes.
C9_GreetingTable ==
    (mpc = "done" /\ mreq.endpoint = "greet" /\ mreq.hour_given) =>
        LET h == mreq.hour IN
        /\ mresp.status \in {200, 400}
        /\ GreetOutcome \in {"Good morning!", "Good afternoon!", "Good evening!",
                             "Good night!", "error"}
        /\ h \in 5..11 => GreetOutcome = "Good morning!"
        /\ h \in 12..17 => GreetOutcome = "Good afternoon!"
        /\ h \in 18..21 => GreetOutcome = "Good evening!"
        /\ h \in {22, 23, 0, 1, 2, 3, 4} => GreetOutcome = "Good night!"
        /\ (h < 0 \/ h > 23) => GreetOutcome = "error"

\* C9 witness: hour 24 is rejected
C9_Witness ==
    /\ mpc = "done"
    /\ mreq.endpoint = "greet"
    /\ mreq.hour_given
    /\ mreq.hour = 24
    /\ mresp.status = 400

DeclarationOrder ==
    <<kw_morning, kw_afternoon, kw_evening, kw_night, kw_hello, kw_hi, kw_hey>>

\* C10: /process answers the trimmed text, one space, and the emoji of the
\* first keyword in declaration order (morning, afternoon, evening, night,
\* hello, hi, hey) that is a case-insensitive substring of the trimmed text,
\* wherever the keywords stand in the text; the default emoji when none is.
C10_FirstKeywordInOrder ==
    (mpc = "done" /\ mreq.endpoint = "process" /\ Strip(mreq.text) # <<>>) =>
        LET text == Strip(mreq.text)
            hits == { i \in 1..Len(DeclarationOrder) :
                        Contains(LowerStr(text), DeclarationOrder[i]) }
            first == CHOOSE i \in hits : \A j \in hits : i <= j
            emoji == IF hits = {} THEN DEFAULT_EMOJI ELSE EMOJI_MAP[first][2]
        IN  /\ \A i \in 1..Len(DeclarationOrder) : EMOJI_MAP[i][1] = DeclarationOrder[i]
            /\ mresp.status = 200
            /\ mresp.result = text \o <<" ", emoji>>

\* C10 witness: "hello morning": hello stands first in the text, morning
\* first in the table, and the emoji of morning is chosen
C10_Witness ==
    /\ mpc = "done"
    /\ mreq.endpoint = "process"
    /\ mreq.text = kw_hello \o <<" ">> \o kw_morning
    /\ mresp.result = mreq.text \o <<" ", "sun">>

====
